---- MODULE Spec2Model ----
(***************************************************************************)
(* Model of neurowriter/tokenizer.py: the WordTokenizer, the abstract      *)
(* SubwordTokenizer (longest-match matcher and transform), the BPE         *)
(* training engine (pair frequencies, merge run, pruning, convergence      *)
(* loop) and the SubwordsListTokenizer.                                    *)
(*                                                                         *)
(* A character is a one-character string; a symbol (and a text, and an     *)
(* untokenized document) is a sequence of characters; a document under     *)
(* training is a sequence of symbols (the values of the nodes of its       *)
(* linked list, in order).  A value that may be None is <<>> for None and   *)
(* <<v>> for the value v.                                                  *)
(*                                                                         *)
(* The model follows one tokenizer object from its construction through    *)
(* its first fit and any number of transform calls.                        *)
(***************************************************************************)
EXTENDS Integers, Sequences, FiniteSets, TLC

VARIABLES
    kind,        \* class of the tokenizer object: "bpe", "subwordslist", "word"
    numsymbols,  \* self.numsymbols
    minfreq,     \* self.minfreq
    crosswords,  \* self.crosswords
    subwords,    \* self.subwords (SubwordsListTokenizer)
    symbols,     \* self.symbols: None or a set of symbols
    detector,    \* self.detector: None or the compiled alternation
    corpus,      \* fit's corpus: the linked lists of symbols of a running
                 \* BPETokenizer.fit, the documents of the last WordTokenizer.fit
    freqs,       \* pair statistics of a running BPETokenizer.fit
    chars,       \* the characters of the corpus given to fit
    pc,          \* position of the caller / of fit
    text,        \* argument of the transform call, until the caller is done with it
    transformed, \* transform's list `transformed`
    error        \* exception raised by the call, or "none"

vars == <<kind, numsymbols, minfreq, crosswords, subwords, symbols, detector,
          corpus, freqs, chars, pc, text, transformed, error>>

None == <<>>
Some(v) == <<v>>

(***************************************************************************)
(* Bounds of the model.                                                    *)
(***************************************************************************)
MaxChars == 4
MaxNumSymbols == 5
MaxMinFreq == 2
MaxTextLen == 2

\* The alphabet: two word characters and one character outside \w.
Chars == {"a", "b", " "}
WordChars == {"a", "b"}

\* re.match("\w", s) for a one-character symbol s
IsWordChar(s) == s[1] \in WordChars

RECURSIVE SeqsUpTo(_, _)
SeqsUpTo(S, n) ==
    IF n = 0 THEN {<<>>}
    ELSE LET shorter == SeqsUpTo(S, n - 1)
         IN  shorter \cup {Append(s, x) : s \in {t \in shorter : Len(t) = n - 1}, x \in S}

\* Documents are strings over Chars.  A corpus is the empty list, one
\* document or two documents, of at most MaxChars characters together.
Docs == SeqsUpTo(Chars, MaxChars)
Corpora ==
    {<<>>} \cup {<<d>> : d \in Docs}
           \cup {c \in {<<d1, d2>> : d1 \in Docs, d2 \in Docs} : Len(c[1]) + Len(c[2]) <= MaxChars}
Texts == SeqsUpTo(Chars, MaxTextLen)


(***************************************************************************)
(* Python containers.                                                      *)
(***************************************************************************)
\* A dict (defaultdict(int), Counter) is the sequence of its entries in
\* insertion order, each [key, cnt].
RECURSIVE IndexOf(_, _)
IndexOf(d, k) ==
    IF d = <<>> THEN 0
    ELSE IF d[Len(d)].key = k THEN Len(d)
    ELSE IndexOf(SubSeq(d, 1, Len(d) - 1), k)

HasKey(d, k) == IndexOf(d, k) # 0

\* d.get(k), read as 0 for an absent key
Count(d, k) == IF HasKey(d, k) THEN d[IndexOf(d, k)].cnt ELSE 0

\* d[k] += n on a defaultdict(int): an absent key is inserted last
Incr(d, k, n) ==
    IF HasKey(d, k)
    THEN [d EXCEPT ![IndexOf(d, k)].cnt = @ + n]
    ELSE Append(d, [key |-> k, cnt |-> n])

\* del d[k]
Del(d, k) ==
    LET i == IndexOf(d, k)
    IN  SubSeq(d, 1, i - 1) \o SubSeq(d, i + 1, Len(d))

\* max(d, key=d.get): the first key, in insertion order, of maximal count
RECURSIVE MaxIndex(_, _)
MaxIndex(d, n) ==
    IF n = 1 THEN 1
    ELSE LET m == MaxIndex(d, n - 1)
         IN  IF d[n].cnt > d[m].cnt THEN n ELSE m

MaxKey(d) == d[MaxIndex(d, Len(d))].key

RECURSIVE Flatten(_)
Flatten(ss) == IF ss = <<>> THEN <<>> ELSE Head(ss) \o Flatten(Tail(ss))

Range(s) == {s[i] : i \in 1..Len(s)}

\* set(chain(*[doc for doc in corpus])): the elements of the documents
ElementsOf(c) == Range(Flatten(c))

(***************************************************************************)
(* WordTokenizer.                                                          *)
(***************************************************************************)
\* self.parser.split(doc) with the pattern (\W): the pieces between the
\* characters outside \w, empty pieces included, and those characters
RECURSIVE splitFrom(_, _, _, _)
splitFrom(doc, i, piece, acc) ==
    IF i > Len(doc) THEN Append(acc, piece)
    ELSE IF doc[i] \in WordChars
         THEN splitFrom(doc, i + 1, Append(piece, doc[i]), acc)
         ELSE splitFrom(doc, i + 1, <<>>, acc \o <<piece, <<doc[i]>>>>)

split(doc) == splitFrom(doc, 1, <<>>, <<>>)

\* collections.Counter(list)
RECURSIVE Counter(_)
Counter(list) ==
    IF list = <<>> THEN <<>>
    ELSE Incr(Counter(SubSeq(list, 1, Len(list) - 1)), list[Len(list)], 1)

\* The entry e put into a list sorted by decreasing count, after the
\* entries of the same count
RECURSIVE InsertByFreq(_, _)
InsertByFreq(srt, e) ==
    IF srt = <<>> THEN <<e>>
    ELSE IF Head(srt).cnt >= e.cnt THEN <<Head(srt)>> \o InsertByFreq(Tail(srt), e)
    ELSE <<e>> \o srt

\* sorted(freqsymbols, key=lambda x: x[1], reverse=True): a stable sort
RECURSIVE SortedByFreq(_)
SortedByFreq(d) ==
    IF d = <<>> THEN <<>>
    ELSE InsertByFreq(SortedByFreq(SubSeq(d, 1, Len(d) - 1)), d[Len(d)])

\* list[0:n], a Python slice: a negative n counts from the end of the list
SliceTo(list, n) ==
    IF n >= 0 THEN SubSeq(list, 1, IF n < Len(list) THEN n ELSE Len(list))
    ELSE SubSeq(list, 1, Len(list) + n)

\* WordTokenizer.fit: the symbol set it leaves in self.symbols
wordfit(c, nsym, mf) ==
    LET charsyms == {<<ch>> : ch \in ElementsOf(c)}
        tokens == Counter(Flatten([d \in 1..Len(c) |-> split(c[d])]))
        freqsymbols == SelectSeq(tokens, LAMBDA e : e.cnt >= mf)
        srt == SortedByFreq(freqsymbols)
        remain == SelectSeq(srt, LAMBDA e : e.key \notin charsyms)
        freespace == nsym - Cardinality(charsyms)
        taken == SliceTo(remain, freespace)
    IN  charsyms \cup {taken[i].key : i \in 1..Len(taken)}

(***************************************************************************)
(* neurowriter.linkedlist, used by BPETokenizer.                           *)
(***************************************************************************)
\* LinkedList(doc): one node per character of the document
LinkedList(doc) == [i \in 1..Len(doc) |-> <<doc[i]>>]

\* node.mergewithnext() on the i-th node: the node takes the concatenation of
\* its value and its successor's, and is linked to the successor's successor
mergewithnext(doc, i) ==
    SubSeq(doc, 1, i - 1) \o <<doc[i] \o doc[i + 1]>> \o SubSeq(doc, i + 2, Len(doc))

(***************************************************************************)
(* BPETokenizer.                                                           *)
(***************************************************************************)
validpairAlways(xw, s1, s2) == TRUE

\* BPETokenizer.validpair; xw is self.crosswords
validpair(xw, s1, s2) ==
    IF xw \/ (Len(s1) > 1 /\ Len(s2) > 1)
    THEN TRUE
    ELSE (Len(s1) > 1 \/ IsWordChar(s1)) /\ (Len(s2) > 1 \/ IsWordChar(s2))

\* BPETokenizer.pairfreqs, one document from node i on
RECURSIVE pairfreqsDoc(_, _, _, _)
pairfreqsDoc(xw, doc, i, stats) ==
    IF i > Len(doc) THEN stats
    ELSE IF i < Len(doc) /\ validpair(xw, doc[i], doc[i + 1])
         THEN pairfreqsDoc(xw, doc, i + 1, Incr(stats, <<doc[i], doc[i + 1]>>, 1))
         ELSE pairfreqsDoc(xw, doc, i + 1, stats)

\* BPETokenizer.pairfreqs over the documents from d on
RECURSIVE pairfreqsFrom(_, _, _, _)
pairfreqsFrom(xw, c, d, stats) ==
    IF d > Len(c) THEN stats
    ELSE pairfreqsFrom(xw, c, d + 1, pairfreqsDoc(xw, c[d], 1, stats))

pairfreqs(xw, c) == pairfreqsFrom(xw, c, 1, <<>>)

mergeupdateNoDecrement(xw, doc, i, f, leftsymbol, rightsymbol) ==
    LET newsymbol == leftsymbol \o rightsymbol
        f1 == IF i > 1 /\ validpair(xw, doc[i - 1], newsymbol)
              THEN Incr(f, <<doc[i - 1], newsymbol>>, 1)
              ELSE f
    IN  IF i < Len(doc) /\ validpair(xw, doc[i + 1], newsymbol)
        THEN Incr(Incr(f1, <<newsymbol, doc[i + 1]>>, 1), <<rightsymbol, doc[i + 1]>>, -1)
        ELSE f1

\* The body of mergesymbols' inner loop for the node at position i, once the
\* node has been merged with its successor: the two frequency updates
mergeupdate(xw, doc, i, f, leftsymbol, rightsymbol) ==
    LET newsymbol == leftsymbol \o rightsymbol
        f1 == IF i > 1 /\ validpair(xw, doc[i - 1], newsymbol)
              THEN Incr(Incr(f, <<doc[i - 1], newsymbol>>, 1), <<doc[i - 1], leftsymbol>>, -1)
              ELSE f
    IN  IF i < Len(doc) /\ validpair(xw, doc[i + 1], newsymbol)
        THEN Incr(Incr(f1, <<newsymbol, doc[i + 1]>>, 1), <<rightsymbol, doc[i + 1]>>, -1)
        ELSE f1

\* mergesymbols' inner loop over the nodes of one document, from node i on;
\* the iteration goes on from the node that follows the merged one
RECURSIVE mergeDoc(_, _, _, _, _, _)
mergeDoc(xw, doc, i, f, leftsymbol, rightsymbol) ==
    IF i > Len(doc) THEN [doc |-> doc, freqs |-> f]
    ELSE IF doc[i] = leftsymbol /\ i < Len(doc) /\ doc[i + 1] = rightsymbol
         THEN LET merged == mergewithnext(doc, i)
              IN  mergeDoc(xw, merged, i + 1,
                           mergeupdate(xw, merged, i, f, leftsymbol, rightsymbol),
                           leftsymbol, rightsymbol)
         ELSE mergeDoc(xw, doc, i + 1, f, leftsymbol, rightsymbol)

\* mergesymbols' outer loop over the documents from d on
RECURSIVE mergeCorpus(_, _, _, _, _, _)
mergeCorpus(xw, c, d, f, leftsymbol, rightsymbol) ==
    IF d > Len(c) THEN [corpus |-> c, freqs |-> f]
    ELSE LET r == mergeDoc(xw, c[d], 1, f, leftsymbol, rightsymbol)
         IN  mergeCorpus(xw, [c EXCEPT ![d] = r.doc], d + 1, r.freqs, leftsymbol, rightsymbol)

\* BPETokenizer.mergesymbols: the new corpus, statistics and symbol set
mergesymbols(xw, c, syms, f, leftsymbol, rightsymbol) ==
    LET r == mergeCorpus(xw, c, 1, f, leftsymbol, rightsymbol)
    IN  [corpus |-> r.corpus,
         freqs |-> Del(r.freqs, <<leftsymbol, rightsymbol>>),
         symbols |-> syms \cup {leftsymbol \o rightsymbol}]

underbudgetOrEqual(syms, n) == Cardinality(syms) <= n

\* mergingrun's loop condition: len(self.symbols) < self.numsymbols
underbudget(syms, n) == Cardinality(syms) < n

\* mergingrun's stop test: the most frequent pair is too infrequent
infrequent(f, mf) == Count(f, MaxKey(f)) < mf

\* Number of nodes of the corpus whose value is the symbol
Occurrences(c, symbol) ==
    LET flat == Flatten(c)
    IN  Cardinality({i \in 1..Len(flat) : flat[i] = symbol})

prunesymbolsAnyLength(c, syms, mf) == {symbol \in syms : Occurrences(c, symbol) >= mf}

\* BPETokenizer.prunesymbols: the symbols kept
prunesymbols(c, syms, mf) ==
    {symbol \in syms : Len(symbol) = 1 \/ Occurrences(c, symbol) >= mf}

(***************************************************************************)
(* SubwordTokenizer.                                                       *)
(***************************************************************************)
\* sorted(self.symbols, key=len, reverse=True): longest first; the order of
\* symbols of one length follows the set's iteration order
RECURSIVE SortedByLen(_)
SortedByLen(syms) ==
    IF syms = {} THEN <<>>
    ELSE LET longest == CHOOSE x \in syms : \A y \in syms : Len(y) <= Len(x)
         IN  <<longest>> \o SortedByLen(syms \ {longest})

\* SubwordTokenizer.compile: the alternation of the escaped symbols; each
\* alternative matches its symbol literally
compile(syms) == SortedByLen(syms)

IsPrefixFirstChar(p, string) == Len(string) > 0 /\ p[1] = string[1]

IsPrefix(p, string) == Len(p) <= Len(string) /\ SubSeq(string, 1, Len(p)) = p

\* The first alternative of the list that matches at the start of the string
RECURSIVE firstmatch(_, _)
firstmatch(alts, string) ==
    IF alts = <<>> THEN None
    ELSE IF IsPrefix(Head(alts), string) THEN Some(Head(alts))
    ELSE firstmatch(Tail(alts), string)

\* detector.match(string): the match of the first alternative that matches;
\* the pattern compiled from no symbol is the empty pattern, which matches
\* the empty string
match(det, string) == IF det = <<>> THEN Some(<<>>) ELSE firstmatch(det, string)

\* SubwordTokenizer.transform's loop from position i on, with the compiled
\* detector: the list built and how the loop ends.  "TypeError" is len(None)
\* after None was appended; "hang" is the loop that never advances after an
\* empty match.
RECURSIVE transformFrom(_, _, _, _)
transformFrom(det, txt, i, acc) ==
    IF i > Len(txt) THEN [out |-> acc, error |-> "none"]
    ELSE LET m == match(det, SubSeq(txt, i, Len(txt)))
         IN  IF m = None THEN [out |-> Append(acc, None), error |-> "TypeError"]
             ELSE IF m[1] = <<>> THEN [out |-> Append(acc, m[1]), error |-> "hang"]
             ELSE transformFrom(det, txt, i + Len(m[1]), Append(acc, m[1]))

\* SubwordTokenizer.transform with bestmatch: the first call of bestmatch
\* raises when nothing was fitted, and compiles the detector when needed
transform(syms, det, txt) ==
    IF Len(txt) = 0 THEN [out |-> <<>>, error |-> "none", detector |-> det]
    ELSE IF det = None /\ syms = None
         THEN [out |-> <<>>, error |-> "ValueError", detector |-> det]
    ELSE LET compiled == IF det = None THEN Some(compile(syms[1])) ELSE det
             r == transformFrom(compiled[1], txt, 1, <<>>)
         IN  [out |-> r.out, error |-> r.error, detector |-> compiled]

(***************************************************************************)
(* The tokenizer object and its operations.                                *)
(***************************************************************************)
\* Subword lists given to the SubwordsListTokenizer constructor
SubwordLists == SUBSET {<<"a", "b">>, <<"b", " ">>}

\* __init__ of the three classes
Init ==
    /\ kind \in {"bpe", "subwordslist", "word"}
    /\ numsymbols \in (IF kind = "subwordslist" THEN {0} ELSE 0..MaxNumSymbols)
    /\ minfreq \in (IF kind = "subwordslist" THEN {0} ELSE 0..MaxMinFreq)
    /\ crosswords \in (IF kind = "bpe" THEN BOOLEAN ELSE {FALSE})
    /\ subwords \in (IF kind = "subwordslist" THEN SubwordLists ELSE {{}})
    /\ symbols = None
    /\ detector = None
    /\ corpus = <<>>
    /\ freqs = <<>>
    /\ chars = {}
    /\ pc = "untrained"
    /\ text = None
    /\ transformed = <<>>
    /\ error = "none"

config == <<kind, numsymbols, minfreq, crosswords, subwords>>
call == <<text, transformed>>

\* BPETokenizer.fit up to the training loop
BPEFit ==
    /\ kind = "bpe"
    /\ pc = "untrained"
    /\ text = None
    /\ \E c \in Corpora :
          LET lists == [d \in 1..Len(c) |-> LinkedList(c[d])]
          IN  /\ corpus' = lists
              /\ symbols' = Some(ElementsOf(lists))
              /\ freqs' = pairfreqs(crosswords, lists)
              /\ chars' = ElementsOf(c)
    /\ pc' = "merging"
    /\ UNCHANGED <<config, detector, call, error>>

\* One pass of mergingrun's loop that merges the most frequent pair
MergeStep ==
    /\ pc = "merging"
    /\ underbudget(symbols[1], numsymbols)
    /\ freqs # <<>>
    /\ LET pair == MaxKey(freqs)
       IN  /\ ~infrequent(freqs, minfreq)
           /\ LET r == mergesymbols(crosswords, corpus, symbols[1], freqs, pair[1], pair[2])
              IN  /\ corpus' = r.corpus
                  /\ freqs' = r.freqs
                  /\ symbols' = Some(r.symbols)
    /\ UNCHANGED <<config, detector, chars, pc, call, error>>

\* mergingrun returns: the budget is reached, or the most frequent pair is
\* too infrequent
MergeStop ==
    /\ pc = "merging"
    /\ \/ ~underbudget(symbols[1], numsymbols)
       \/ /\ underbudget(symbols[1], numsymbols)
          /\ freqs # <<>>
          /\ infrequent(freqs, minfreq)
    /\ pc' = "pruning"
    /\ UNCHANGED <<config, symbols, detector, corpus, freqs, chars, call, error>>

\* max() of an empty dict raises ValueError, which leaves fit
MergeFail ==
    /\ pc = "merging"
    /\ underbudget(symbols[1], numsymbols)
    /\ freqs = <<>>
    /\ pc' = "failed"
    /\ error' = "ValueError"
    /\ corpus' = <<>>
    /\ freqs' = <<>>
    /\ UNCHANGED <<config, symbols, detector, chars, call>>

pruneineffectiveAlways(before, after) == TRUE

\* fit's test that ends the loop: beforeprune == afterprune
pruneineffective(before, after) == Cardinality(before) = Cardinality(after)

\* The pruning pass of fit's loop and the test that ends the loop
Prune ==
    /\ pc = "pruning"
    /\ LET after == prunesymbols(corpus, symbols[1], minfreq)
       IN  /\ symbols' = Some(after)
           /\ pc' = IF pruneineffective(symbols[1], after)
                     THEN "finished" ELSE "merging"
    /\ UNCHANGED <<config, detector, corpus, freqs, chars, call, error>>

\* fit compiles the detector and returns
BPEReturn ==
    /\ pc = "finished"
    /\ detector' = Some(compile(symbols[1]))
    /\ pc' = "trained"
    /\ corpus' = <<>>
    /\ freqs' = <<>>
    /\ UNCHANGED <<config, symbols, chars, call, error>>

\* SubwordsListTokenizer.fit
ListFit ==
    /\ kind = "subwordslist"
    /\ pc = "untrained"
    /\ text = None
    /\ \E c \in Corpora :
          LET syms == {<<ch>> : ch \in ElementsOf(c)} \cup subwords
          IN  /\ symbols' = Some(syms)
              /\ detector' = Some(compile(syms))
              /\ chars' = ElementsOf(c)
    /\ pc' = "trained"
    /\ UNCHANGED <<config, corpus, freqs, call, error>>

\* WordTokenizer.fit
WordFit ==
    /\ kind = "word"
    /\ pc = "untrained"
    /\ text = None
    /\ \E c \in Corpora :
          /\ symbols' = Some(wordfit(c, numsymbols, minfreq))
          /\ corpus' = c
          /\ chars' = ElementsOf(c)
    /\ pc' = "trained"
    /\ UNCHANGED <<config, detector, freqs, call, error>>

\* SubwordTokenizer.transform, called while no fit is running
Transform ==
    /\ kind \in {"bpe", "subwordslist"}
    /\ pc \in {"untrained", "trained", "failed"}
    /\ text = None
    /\ \E txt \in Texts :
          LET r == transform(symbols, detector, txt)
          IN  /\ transformed' = r.out
              /\ error' = r.error
              /\ detector' = r.detector
              /\ text' = Some(txt)
    /\ UNCHANGED <<config, symbols, corpus, freqs, chars, pc>>

\* The transform call is over: its caller has the list or the exception
TransformReturn ==
    /\ text # None
    /\ text' = None
    /\ transformed' = <<>>
    /\ error' = "none"
    /\ UNCHANGED <<config, symbols, detector, corpus, freqs, chars, pc>>

Next ==
    \/ BPEFit
    \/ MergeStep
    \/ MergeStop
    \/ MergeFail
    \/ Prune
    \/ BPEReturn
    \/ ListFit
    \/ WordFit
    \/ Transform
    \/ TransformReturn

Spec == Init /\ [][Next]_vars

(***************************************************************************)
(* Properties.                                                             *)
(***************************************************************************)
IsBPE == kind = "bpe"
IsSubword == kind \in {"bpe", "subwordslist"}
InFit == pc \in {"merging", "pruning", "finished"}
CharSymbols == {<<ch>> : ch \in chars}
Composite(syms) == {symbol \in syms : Len(symbol) > 1}
Max(m, n) == IF m > n THEN m ELSE n
ValidConfig == numsymbols > 0 /\ minfreq > 0

\* C1: from the start of BPETokenizer.fit on, through every merge and every
\* pruning pass and when fit has returned, every character of the corpus is
\* a symbol of the symbol set.
C1_CharsKept ==
    (IsBPE /\ pc # "untrained") => CharSymbols \subseteq symbols[1]

\* C1 witness: the training loop has ended after a pruning pass removed a
\* symbol that the pair statistics still mention.
C1_Witness ==
    /\ IsBPE /\ ValidConfig /\ pc = "finished" /\ chars # {}
    /\ \E i \in 1..Len(freqs) : freqs[i].key[1] \notin symbols[1]

C3_RoundTrip ==
    (IsBPE /\ pc = "trained" /\ text # None /\ Range(text[1]) \subseteq chars)
        => /\ error = "none"
           /\ Range(transformed) \subseteq symbols[1]
           /\ Flatten(transformed) = text[1]

\* C3 witness: such a text was transformed into a composite symbol.
C3_Witness ==
    /\ IsBPE /\ ValidConfig /\ pc = "trained"
    /\ text # None /\ Range(text[1]) \subseteq chars
    /\ \E i \in 1..Len(transformed) : Len(transformed[i]) > 1

\* The transform of the claim C4: a position where no symbol matches is
\* skipped, one character at a time
RECURSIVE lossyFrom(_, _, _, _)
lossyFrom(alts, txt, i, acc) ==
    IF i > Len(txt) THEN acc
    ELSE LET m == firstmatch(alts, SubSeq(txt, i, Len(txt)))
         IN  IF m = None THEN lossyFrom(alts, txt, i + 1, acc)
             ELSE lossyFrom(alts, txt, i + Len(m[1]), Append(acc, m[1]))

\* C4: transform of a fitted subword tokenizer that has at least one symbol
\* does not fail where no symbol matches: it returns the longest matches
\* with the unmatched characters left out.
C4_Lossy ==
    (IsSubword /\ pc = "trained" /\ symbols[1] # {} /\ text # None)
        => /\ error = "none"
           /\ transformed = lossyFrom(SortedByLen(symbols[1]), text[1], 1, <<>>)

\* C5: transform of a subword tokenizer that was never fitted (a
\* SubwordsListTokenizer, or a BPETokenizer with a positive numsymbols and
\* minfreq) raises the not-fitted ValueError, whatever the text.
C5_NotFitted ==
    (IsSubword /\ (IsBPE => ValidConfig) /\ pc = "untrained" /\ text # None)
        => error = "ValueError"

\* C6: with crosswords off, every composite symbol of a BPETokenizer is
\* made of word characters only, during fit and after it.
C6_WordCharsOnly ==
    (IsBPE /\ ~crosswords /\ symbols # None)
        => \A symbol \in Composite(symbols[1]) : Range(symbol) \subseteq WordChars

\* C6 witness: fit has returned composite symbols for a corpus that holds a
\* word character next to a character outside \w, crosswords off.
C6_Witness ==
    /\ IsBPE /\ ValidConfig /\ ~crosswords /\ pc = "trained"
    /\ Composite(symbols[1]) # {}
    /\ chars \ WordChars # {}

\* C7: BPETokenizer.fit with a positive numsymbols and minfreq never raises.
C7_NoError ==
    (IsBPE /\ ValidConfig) => pc # "failed"

\* C8: a BPETokenizer with a non-positive numsymbols or minfreq never gets
\* through fit to the trained state.
C8_Rejected ==
    (IsBPE /\ ~ValidConfig) => pc # "trained"

\* Frequency of a token among the split tokens of the corpus
TokenFreq(c, token) ==
    LET toks == Flatten([d \in 1..Len(c) |-> split(c[d])])
    IN  Cardinality({i \in 1..Len(toks) : toks[i] = token})

SplitTokens(c) == Range(Flatten([d \in 1..Len(c) |-> split(c[d])]))

\* C9: after WordTokenizer.fit with a positive numsymbols and minfreq the
\* symbol set holds every character of the
\* corpus; what it holds beyond them are split tokens of frequency at least
\* minfreq, none less frequent than a qualifying token left out, and at most
\* max(0, numsymbols - number of distinct characters) of them.
C9_WordFit ==
    (kind = "word" /\ ValidConfig /\ pc = "trained")
        => LET extra == symbols[1] \ CharSymbols
               out == (SplitTokens(corpus) \ CharSymbols) \ symbols[1]
           IN  /\ CharSymbols \subseteq symbols[1]
               /\ extra \subseteq SplitTokens(corpus)
               /\ \A t \in extra : TokenFreq(corpus, t) >= minfreq
               /\ \A t \in extra : \A u \in out :
                      TokenFreq(corpus, u) >= minfreq
                          => TokenFreq(corpus, u) <= TokenFreq(corpus, t)
               /\ Cardinality(extra) <= Max(0, numsymbols - Cardinality(chars))

\* Number of places of the corpus where a node s1 is followed by a node s2
Adjacent(c, s1, s2) ==
    Cardinality({p \in {<<d, i>> : d \in 1..Len(c), i \in 1..MaxChars} :
                    /\ p[2] < Len(c[p[1]])
                    /\ c[p[1]][p[2]] = s1
                    /\ c[p[1]][p[2] + 1] = s2})

\* The pairs that the statistics or the corpus hold
PairsAround(c, f) ==
    {f[i].key : i \in 1..Len(f)}
        \cup UNION {{<<c[d][i], c[d][i + 1]>> : i \in 1..(Len(c[d]) - 1)} : d \in 1..Len(c)}

\* C10: between the merge steps of BPETokenizer.fit the count of every valid
\* pair in the pair statistics (0 when it has no entry) is the number of
\* places of the merged corpus where the pair occurs, and no count is
\* negative.
C10_ExactCounts ==
    (IsBPE /\ InFit)
        => /\ \A pair \in PairsAround(corpus, freqs) :
                  validpair(crosswords, pair[1], pair[2])
                      => Count(freqs, pair) = Adjacent(corpus, pair[1], pair[2])
           /\ \A i \in 1..Len(freqs) : freqs[i].cnt >= 0

\* C10 witness: a pair (L, L) was merged over a run of four L, which left
\* two merged nodes side by side.
C10_Witness ==
    /\ IsBPE /\ ValidConfig /\ pc = "merging"
    /\ \E d \in 1..Len(corpus) :
          /\ Len(corpus[d]) = 2
          /\ corpus[d][1] = corpus[d][2]
          /\ Len(corpus[d][1]) = 2
          /\ corpus[d][1][1] = corpus[d][1][2]

\* A merge run is about to merge the most frequent pair of the statistics
Selecting ==
    /\ IsBPE /\ pc = "merging"
    /\ underbudget(symbols[1], numsymbols)
    /\ freqs # <<>>
    /\ ~infrequent(freqs, minfreq)

\* C11: the pair a merge run of BPETokenizer selects has the greatest count
\* of the pair statistics, a count of at least minfreq and a positive count,
\* and occurs in the corpus; an entry of count zero or less is never
\* selected.
C11_Selection ==
    Selecting
        => LET pair == MaxKey(freqs)
           IN  /\ \A i \in 1..Len(freqs) : freqs[i].cnt <= Count(freqs, pair)
               /\ Count(freqs, pair) >= minfreq
               /\ Count(freqs, pair) > 0
               /\ Adjacent(corpus, pair[1], pair[2]) >= 1

\* C12: in BPETokenizer.fit a merge run is followed by a pruning pass, a
\* pruning pass that removes a symbol is followed by another merge run, and
\* the first pruning pass that removes none ends the loop; when the loop has
\* ended, every composite symbol of the symbol set is the value of at least
\* minfreq nodes of the merged corpus, and fit returns that symbol set.
C12_FixedPoint ==
    [][IsBPE =>
        /\ pc = "merging" => pc' \in {"merging", "pruning", "failed"}
        /\ pc = "pruning" =>
              /\ symbols'[1] \subseteq symbols[1]
              /\ corpus' = corpus
              /\ IF symbols' = symbols THEN pc' = "finished" ELSE pc' = "merging"
        /\ pc' = "finished" =>
              \A symbol \in Composite(symbols'[1]) :
                  Occurrences(corpus', symbol) >= minfreq
        /\ pc = "finished" => (pc' = "trained" /\ symbols' = symbols)]_vars

\* C12 witness: the loop has ended with a composite symbol in the symbol
\* set, after an earlier pruning pass removed a symbol that the pair
\* statistics still mention.
C12_Witness ==
    /\ IsBPE /\ ValidConfig /\ pc = "finished"
    /\ Composite(symbols[1]) # {}
    /\ \E i \in 1..Len(freqs) :
          freqs[i].key[1] \notin symbols[1] \/ freqs[i].key[2] \notin symbols[1]

====
